---- MODULE Spec2Model ----
(***************************************************************************)
(* Model of the multiplayer session manager                                *)
(* (backend/app/models/multiplayer_session.py, backend/app/api/            *)
(* multiplayer.py), of the companion response tables                       *)
(* (backend/app/models/ai_players.py) and of the decision-engine           *)
(* controller (backend/app/services/agentic_ai.py).                        *)
(*                                                                         *)
(* Conventions.                                                            *)
(*  - A Python list is a TLA+ sequence; current_turn_index keeps its       *)
(*    0-based value, so the current participant is                         *)
(*    turn_order[current_turn_index + 1].                                  *)
(*  - str(uuid.uuid4())[:8] is a fresh identifier: session ids are handed  *)
(*    out from the counter next_id and never reused.  turn_id and the      *)
(*    timestamps of a GameTurn are not modelled.                           *)
(*  - A text is known by the keywords it contains (KeywordsOf): the code   *)
(*    only ever tests texts with `word in text.lower()`.                   *)
(*  - A companion line is known by the cell of the response table it was   *)
(*    drawn from ("personality/situation"); which of the three lines       *)
(*    of the cell random.choice drew is left open until the line is read   *)
(*    back (LineKeywords).                                                 *)
(***************************************************************************)
EXTENDS Integers, Sequences, FiniteSets, TLC

VARIABLES
    active_sessions,   \* MultiplayerSessionManager.active_sessions: id -> session
    next_id,           \* the next fresh session id
    last_call,         \* the outcome of the last completed call
    requests,          \* the player_action requests of the HTTP layer
    anthropic,         \* AgenticDungeonMaster.anthropic: TRUE for a client, FALSE for None
    player_behavior_model,
    world_state,
    planned_actions,
    conversation_context,
    past_decisions,    \* memory.past_decisions
    player_emotional_responses,  \* memory.player_emotional_responses
    cycles,            \* process_player_input calls made so far
    dm_result,         \* how the last process_player_input call ended
    dice_call,         \* the last call of the dice engine and its result
    rolls_made         \* calls of the dice engine so far

session_vars == <<active_sessions, next_id, last_call, requests>>

agent_vars ==
    <<anthropic, player_behavior_model, world_state, planned_actions,
      conversation_context, past_decisions, player_emotional_responses, cycles,
      dm_result>>

dice_vars == <<dice_call, rolls_made>>

vars == <<session_vars, agent_vars, dice_vars>>

(***************************************************************************)
(* Bounds of the model.                                                    *)
(***************************************************************************)
MaxSessions == 2     \* sessions ever created in one behaviour of Spec
MaxTurns == 2        \* cap on the turns of the stored sessions together, Spec
MaxLongTurns == 6    \* cap on total_turns of the one session of LongSpec
MaxRequests == 2     \* player_action requests in flight under AsyncSpec
MaxCycles == 2       \* process_player_input calls in one behaviour of AgentSpec
MaxAdjustments == 9  \* persist steps in one behaviour of WorldSpec
MaxRolls == 1        \* calls of the dice engine in one behaviour of DiceSpec

SessionIds == 1..MaxSessions
\* ids a caller may submit: those not handed out yet and those of ended
\* sessions are unknown to the store
CallIds == SessionIds

HumanNames == {"Aria", "Thorgar Ironbeard"}
PlayerInputs ==
    { [player_name |-> "Aria", action |-> "attack the goblin", dialogue |-> ""],
      [player_name |-> "Mallory", action |-> "look around",
       dialogue |-> "we should talk"] }
AiTurnNames == {"zara swiftblade"}
LongAiTurnNames == {"Zara Swiftblade", "Nobody"}

NoOne == "none"

(***************************************************************************)
(* ai_players.py                                                           *)
(***************************************************************************)
\* AIPlayerManager._create_default_party, in dictionary order
Roster ==
    << [name |-> "Thorgar Ironbeard", player_class |-> "warrior",
        personality |-> "brave", voice_id |-> "dwarf_warrior"],
       [name |-> "Elara Moonwhisper", player_class |-> "mage",
        personality |-> "wise", voice_id |-> "elf_mage"],
       [name |-> "Zara Swiftblade", player_class |-> "rogue",
        personality |-> "witty", voice_id |-> "human_rogue"],
       [name |-> "Brother Marcus", player_class |-> "cleric",
        personality |-> "protective", voice_id |-> "wise_elder"] >>

\* get_ai_players(): list(self.ai_players.values())
get_ai_players == Roster

\* str.lower() on the names the model submits
Lower(s) ==
    CASE s = "Thorgar Ironbeard" -> "thorgar ironbeard"
      [] s = "Elara Moonwhisper" -> "elara moonwhisper"
      [] s = "Zara Swiftblade" -> "zara swiftblade"
      [] s = "Brother Marcus" -> "brother marcus"
      [] s = "Aria" -> "aria"
      [] s = "Mallory" -> "mallory"
      [] s = "Nobody" -> "nobody"
      [] OTHER -> s

\* AIPlayerManager.get_player_by_name: the first player whose lower-cased
\* name equals the lower-cased argument; 0 stands for None
get_player_by_name(name) ==
    LET hits == {i \in 1..Len(Roster) : Lower(Roster[i].name) = Lower(name)}
    IN  IF hits = {} THEN 0 ELSE CHOOSE i \in hits : \A j \in hits : i <= j

\* the keywords (of those the code looks for) that a submitted text contains
KeywordsOf(text) ==
    CASE text = "attack the goblin" -> {"attack"}
      [] text = "we should talk" -> {"talk"}
      [] text = "melee_attack" -> {"attack"}
      [] text = "sneak_attack" -> {"attack"}
      [] text = "heal_party" -> {"heal"}
      [] text = "search_area" -> {"search"}
      [] OTHER -> {}

CombatWords == {"fight", "combat", "attack", "enemy", "battle"}
SocialWords == {"talk", "speak", "negotiate", "conversation", "meet"}

\* _create_character_response, "Determine situation type"
SituationType(kw) ==
    IF kw \cap CombatWords # {} THEN "combat"
    ELSE IF kw \cap SocialWords # {} THEN "social"
    ELSE "exploration"

TabledPersonalities == {"brave", "wise", "witty", "protective"}

\* _create_character_response: the cell of personality_responses the line is
\* drawn from, "<personality>/<situation type>"; a personality without a
\* table gets the one default line
CreateCharacterResponse(player, kw) ==
    IF player.personality \in TabledPersonalities
    THEN player.personality \o "/" \o SituationType(kw)
    ELSE player.personality \o "/default"

\* the keyword sets of the three lines of a cell of personality_responses
LineKeywords(cell) ==
    CASE cell = "brave/combat" -> {{}, {"enemy"}}
      [] cell = "brave/social" -> {{}, {"speak"}}
      [] cell = "wise/combat" -> {{}, {"battle"}}
      [] cell = "witty/social" -> {{}, {"conversation"}}
      [] cell = "protective/combat" -> {{}, {"battle"}}
      [] OTHER -> {{}}

\* AIPlayerManager._determine_action_type
DetermineActionType(player, kw) ==
    IF kw \cap {"fight", "combat", "attack", "enemy"} # {}
    THEN CASE player.player_class = "warrior" -> "melee_attack"
           [] player.player_class = "mage" -> "cast_spell"
           [] player.player_class = "rogue" -> "sneak_attack"
           [] player.player_class = "cleric" -> "support_party"
           [] OTHER -> "roleplay"
    ELSE IF kw \cap {"heal", "hurt", "injured", "damage"} # {}
    THEN IF player.player_class = "cleric" THEN "heal_party" ELSE "roleplay"
    ELSE IF kw \cap {"investigate", "search", "explore"} # {}
    THEN IF player.player_class = "rogue" THEN "search_area" ELSE "roleplay"
    ELSE "roleplay"

\* AIPlayerManager.generate_ai_response / generate_ai_player_response:
\* found = FALSE is the dictionary {"error": "Player not found"}
generate_ai_player_response(player_name, kw) ==
    LET i == get_player_by_name(player_name)
    IN  IF i = 0
        THEN [found |-> FALSE, player_name |-> NoOne, voice_id |-> NoOne,
              response |-> "", action_type |-> NoOne]
        ELSE [found |-> TRUE, player_name |-> Roster[i].name,
              voice_id |-> Roster[i].voice_id,
              response |-> CreateCharacterResponse(Roster[i], kw),
              action_type |-> DetermineActionType(Roster[i], kw)]

(***************************************************************************)
(* utils/dice.py                                                           *)
(***************************************************************************)
\* A notation is the sequence of its characters.
Digits == <<"0", "1", "2", "3", "4", "5", "6", "7", "8", "9">>

IsDigit(c) == \E i \in 1..Len(Digits) : Digits[i] = c

\* int(c) for a digit c
DigitValue(c) == (CHOOSE i \in 1..Len(Digits) : Digits[i] = c) - 1

\* str.lower, on the letters that the notations here are written with
LowerChar(c) == IF c = "D" THEN "d" ELSE IF c = "X" THEN "x" ELSE c

\* notation.replace(" ", "").lower()
Cleaned(notation) ==
    LET kept == SelectSeq(notation, LAMBDA c : c # " ")
    IN  [i \in 1..Len(kept) |-> LowerChar(kept[i])]

\* the length of the longest run of digits of s that starts at position i: what
\* a greedy \d+ takes there
RECURSIVE DigitRun(_, _)
DigitRun(s, i) ==
    IF i <= Len(s) /\ IsDigit(s[i]) THEN 1 + DigitRun(s, i + 1) ELSE 0

\* int() of the n digits of s from position i
RECURSIVE IntOf(_, _, _)
IntOf(s, i, n) ==
    IF n = 0 THEN 0
    ELSE 10 * IntOf(s, i, n - 1) + DigitValue(s[i + n - 1])

\* str(n) for n >= 0
RECURSIVE NatStr(_)
NatStr(n) ==
    IF n < 10 THEN <<Digits[n + 1]>>
    ELSE NatStr(n \div 10) \o <<Digits[(n % 10) + 1]>>

\* str(n)
IntStr(n) == IF n < 0 THEN <<"-">> \o NatStr(0 - n) ELSE NatStr(n)

NoParse == [ok |-> FALSE, count |-> 0, sides |-> 0, modifier |-> 0, matched |-> 0]

\* re.match of (\d+)?d(\d+)([+-]\d+)? at the start of s, and the int() of its
\* groups.  ok is FALSE for no match; matched is the length of the text that
\* the pattern took.
MatchNotation(s) ==
    LET n1 == DigitRun(s, 1)
        d == n1 + 1
        n2 == DigitRun(s, d + 1)
        sign == d + n2 + 1
        n3 == IF sign <= Len(s) /\ s[sign] \in {"+", "-"}
              THEN DigitRun(s, sign + 1) ELSE 0
    IN  IF d > Len(s) \/ s[d] # "d" \/ n2 = 0 THEN NoParse
        ELSE [ok |-> TRUE,
              count |-> IF n1 > 0 THEN IntOf(s, 1, n1) ELSE 1,
              sides |-> IntOf(s, d + 1, n2),
              modifier |->
                 IF n3 = 0 THEN 0
                 ELSE IF s[sign] = "-" THEN 0 - IntOf(s, sign + 1, n3)
                 ELSE IntOf(s, sign + 1, n3),
              matched |-> IF n3 = 0 THEN d + n2 ELSE sign + n3]

parse_dice_notation_as_given(notation) == MatchNotation(notation)

\* parse_dice_notation; ok is FALSE for the ValueError
parse_dice_notation(notation) == MatchNotation(Cleaned(notation))

SelectedRollFirst(advantage, roll1, roll2) == roll1

\* max(roll1, roll2) if advantage, else min(roll1, roll2)
SelectedRoll(advantage, roll1, roll2) ==
    IF advantage
    THEN (IF roll1 > roll2 THEN roll1 ELSE roll2)
    ELSE (IF roll1 < roll2 THEN roll1 ELSE roll2)

\* an entry of individual_rolls: the result of a die, or the text
\* "(advantage: n)" or "(disadvantage: n)" that the two-dice branch appends
Die(n) == [die |-> n, note |-> ""]
Note(mode, n) == [die |-> n, note |-> mode]

RECURSIVE SumDice(_)
SumDice(rolls) ==
    IF rolls = <<>> THEN 0 ELSE Head(rolls).die + SumDice(Tail(rolls))

\* the d20 of the advantage and disadvantage rule
TwentySided == 20

\* no DiceRoll: the call raised
NoRoll ==
    [dice_notation |-> <<>>, individual_rolls |-> <<>>, total |-> 0,
     modifier |-> 0, advantage |-> FALSE, disadvantage |-> FALSE,
     critical |-> FALSE]

\* the number of random.randint calls that roll_dice makes for a notation
DrawsNeeded(notation, advantage, disadvantage) ==
    LET p == parse_dice_notation(notation)
    IN  IF ~p.ok THEN 0
        ELSE IF (advantage \/ disadvantage) /\ p.sides = TwentySided /\ p.count = 1
        THEN 2
        ELSE p.count

\* roll_dice, with draws the values that random.randint(1, sides) returns in
\* turn.  status is "ok" with the DiceRoll, "invalid_notation" for the
\* ValueError of parse_dice_notation, or "empty_range" for the ValueError of
\* random.randint(1, 0).
roll_dice(notation, advantage, disadvantage, draws) ==
    LET p == parse_dice_notation(notation)
    IN  IF ~p.ok THEN [status |-> "invalid_notation", roll |-> NoRoll]
        ELSE IF (advantage \/ disadvantage) /\ p.sides = TwentySided /\ p.count = 1
        THEN LET selected_roll == SelectedRoll(advantage, draws[1], draws[2])
             IN  [status |-> "ok",
                  roll |->
                     [dice_notation |-> notation,
                      individual_rolls |->
                         <<Die(draws[1]), Die(draws[2]),
                           Note(IF advantage THEN "advantage" ELSE "disadvantage",
                                selected_roll)>>,
                      total |-> selected_roll + p.modifier,
                      modifier |-> p.modifier,
                      advantage |-> advantage,
                      disadvantage |-> disadvantage,
                      critical |-> selected_roll = 20]]
        ELSE IF p.count > 0 /\ p.sides < 1
        THEN [status |-> "empty_range", roll |-> NoRoll]
        ELSE LET individual_rolls == [i \in 1..p.count |-> Die(draws[i])]
             IN  [status |-> "ok",
                  roll |->
                     [dice_notation |-> notation,
                      individual_rolls |-> individual_rolls,
                      total |-> SumDice(individual_rolls) + p.modifier,
                      modifier |-> p.modifier,
                      advantage |-> advantage,
                      disadvantage |-> disadvantage,
                      critical |->
                         /\ p.sides = 20
                         /\ Len(individual_rolls) = 1
                         /\ individual_rolls[1].die = 20]]

\* f"{count * 2}d{sides}+{modifier}"
CriticalNotation(count, sides, modifier) ==
    NatStr(count * 2) \o <<"d">> \o NatStr(sides) \o <<"+">> \o IntStr(modifier)

\* the notation that roll_damage rolls
DamageNotation(damage_dice, critical) ==
    LET p == parse_dice_notation(damage_dice)
    IN  IF critical /\ p.ok THEN CriticalNotation(p.count, p.sides, p.modifier)
        ELSE damage_dice

roll_damage_unmarked(damage_dice, critical, draws) ==
    roll_dice(DamageNotation(damage_dice, critical), FALSE, FALSE, draws)

\* roll_damage
roll_damage(damage_dice, critical, draws) ==
    LET r == roll_dice(DamageNotation(damage_dice, critical), FALSE, FALSE, draws)
    IN  IF critical /\ r.status = "ok"
        THEN [r EXCEPT !.roll.critical = TRUE]
        ELSE r

\* roll_initiative
roll_initiative(dexterity_modifier, draws) ==
    LET r == roll_dice(<<"1", "d", "2", "0">>, FALSE, FALSE, draws)
    IN  [r EXCEPT !.roll.total = @ + dexterity_modifier,
                  !.roll.modifier = dexterity_modifier]

\* what the last call of the dice engine was and how it ended
DiceCall(op, notation, advantage, disadvantage, critical, result) ==
    [op |-> op, notation |-> notation, advantage |-> advantage,
     disadvantage |-> disadvantage, critical |-> critical,
     status |-> result.status, roll |-> result.roll]

\* no call of the dice engine yet
DiceInit ==
    /\ dice_call = DiceCall("none", <<>>, FALSE, FALSE, FALSE,
                            [status |-> "none", roll |-> NoRoll])
    /\ rolls_made = 0

(***************************************************************************)
(* services/agentic_ai.py: numbers                                         *)
(***************************************************************************)
\* A float of the controller is the integer n that stands for n / Unit.  One
\* update of the behaviour model divides by 5, so with Unit = 10 * 5^MaxCycles
\* every value that MaxCycles updates can produce from tenths is exact.
\* Where the code compares a computed value with a literal, the two can be
\* equal in exact arithmetic while the floats differ in the last bit (0.5 * 0.8
\* + 1.0 * 0.2 is 0.6000000000000001): at equality either outcome is taken.
RECURSIVE Pow5(_)
Pow5(n) == IF n = 0 THEN 1 ELSE 5 * Pow5(n - 1)

Unit == 10 * Pow5(MaxCycles)

\* k tenths
T(k) == k * Pow5(MaxCycles)

\* x > t and x < t for a computed x; tie decides the case x = t
Gt(x, t, tie) == x > t \/ (x = t /\ tie)
Lt(x, t, tie) == x < t \/ (x = t /\ tie)

(***************************************************************************)
(* services/agentic_ai.py: analysis                                        *)
(***************************************************************************)
\* the value of a key of an analysis dictionary: a string, a number, a value
\* of another type (null, list, object), or no such key
Str(t) == [kind |-> "str", text |-> t, num |-> 0]
Num(n) == [kind |-> "num", text |-> "", num |-> n]
Other == [kind |-> "other", text |-> "", num |-> 0]
Absent == [kind |-> "absent", text |-> "", num |-> 0]

\* bool(value), as analysis.get(key) is tested
Truthy(v) ==
    \/ v.kind = "str" /\ v.text # ""
    \/ v.kind = "num" /\ v.num # 0

\* the keywords (of those the controller looks for) that a text contains
WordsOf(text) ==
    CASE text = "search the room" -> {"search"}
      [] text = "attack the guard" -> {"attack"}
      [] text = "high" -> {"high"}
      [] text = "moderately high" -> {"moderate", "high"}
      [] text = "very cautious" -> {"cautious"}
      [] text = "deeply invested" -> {"invested"}
      [] text = "passive" -> {"passive"}
      [] text = "medium" -> {"medium"}
      [] text = "moderate" -> {"moderate"}
      [] text = "active" -> {"active"}
      [] OTHER -> {}

\* _basic_input_analysis
BasicInputAnalysis(player_input) ==
    [explicit_intent |-> Str("perform_action"),
     implicit_intent |-> Str("progress_story"),
     emotional_state |-> Str("neutral"),
     play_style |->
        Str(IF WordsOf(player_input) \cap {"look", "search", "examine"} # {}
            THEN "exploration" ELSE "action"),
     risk_tolerance |->
        Num(IF WordsOf(player_input) \cap {"attack", "fight", "charge"} # {}
            THEN T(7) ELSE T(4)),
     character_attachment |-> Num(T(5)),
     narrative_preference |-> Str("branching"),
     interaction_level |-> Num(T(6))]

\* _normalize_analysis_values, one key: a string becomes 0.8, 0.3 or 0.5 by
\* the words it contains; any other value is left as it is
Normalized(v, high_words, low_words) ==
    IF v.kind # "str" THEN v
    ELSE IF WordsOf(v.text) \cap high_words # {} THEN Num(T(8))
    ELSE IF WordsOf(v.text) \cap low_words # {} THEN Num(T(3))
    ELSE Num(T(5))

\* _normalize_analysis_values
NormalizeAnalysisValues(analysis) ==
    [analysis EXCEPT
        !.risk_tolerance =
            Normalized(@, {"high", "bold", "aggressive"},
                       {"low", "cautious", "careful"}),
        !.character_attachment =
            Normalized(@, {"high", "strong", "invested"}, {"low", "detached"}),
        !.interaction_level =
            Normalized(@, {"high", "active", "engaged"}, {"low", "passive"})]

\* _parse_ai_analysis, "Fallback: parse text manually and normalize"
DefaultAnalysis ==
    [explicit_intent |-> Str("perform_action"),
     implicit_intent |-> Str("progress_story"),
     emotional_state |-> Str("engaged"),
     play_style |-> Str("mixed"),
     risk_tolerance |-> Str("medium"),
     character_attachment |-> Str("moderate"),
     narrative_preference |-> Str("branching"),
     interaction_level |-> Str("active")]

\* what the collaborator can answer to the analysis prompt: text without a
\* JSON object, and JSON objects with qualifiers in words, with keys missing
\* or null, with numbers from 0 to 1 and with numbers on a scale of 1 to 10
RichReplies == {"prose", "json_words", "json_partial", "json_unit", "json_scale10"}

\* json.loads of the JSON object in the reply
JsonOf(reply) ==
    CASE reply = "json_words" ->
            [explicit_intent |-> Str("fight"), implicit_intent |-> Str("win"),
             emotional_state |-> Str("frustrated"), play_style |-> Str("combat"),
             risk_tolerance |-> Str("moderately high"),
             character_attachment |-> Str("deeply invested"),
             narrative_preference |-> Str("linear"),
             interaction_level |-> Str("passive")]
      [] reply = "json_partial" ->
            [explicit_intent |-> Str("explore"), implicit_intent |-> Absent,
             emotional_state |-> Absent, play_style |-> Absent,
             risk_tolerance |-> Other,
             character_attachment |-> Absent,
             narrative_preference |-> Absent,
             interaction_level |-> Str("very cautious")]
      [] reply = "json_unit" ->
            [explicit_intent |-> Str("talk"), implicit_intent |-> Str("bond"),
             emotional_state |-> Str("curious"), play_style |-> Str("roleplay"),
             risk_tolerance |-> Num(0),
             character_attachment |-> Num(T(10)),
             narrative_preference |-> Str("open_world"),
             interaction_level |-> Num(T(10))]
      [] OTHER ->
            [explicit_intent |-> Str("fight"), implicit_intent |-> Str("win"),
             emotional_state |-> Str("excited"), play_style |-> Str("combat"),
             risk_tolerance |-> Num(T(70)),
             character_attachment |-> Num(T(80)),
             narrative_preference |-> Str("linear"),
             interaction_level |-> Num(T(90))]

\* _parse_ai_analysis
ParseAiAnalysis(reply) ==
    IF reply = "prose"
    THEN NormalizeAnalysisValues(DefaultAnalysis)
    ELSE NormalizeAnalysisValues(JsonOf(reply))

\* _analyze_player_input_intelligently: which of its two returns is taken
AnalyzedBy(client, reply) ==
    IF ~client \/ reply = "raises" THEN "fallback" ELSE "collaborator"

\* the analyze step answering a failed call with the unparsed default record
AnalyzePlayerInputDefault(client, player_input, reply) ==
    IF ~client \/ reply = "raises"
    THEN DefaultAnalysis
    ELSE ParseAiAnalysis(reply)

\* _analyze_player_input_intelligently; reply "raises" is a failed call
AnalyzePlayerInput(client, player_input, reply) ==
    IF ~client \/ reply = "raises"
    THEN BasicInputAnalysis(player_input)
    ELSE ParseAiAnalysis(reply)

(***************************************************************************)
(* services/agentic_ai.py: behaviour model                                 *)
(***************************************************************************)
\* alpha = 0.2, in tenths
AlphaTenths == 2

\* current * (1 - alpha) + new_value * alpha
Smooth(current, new_value) ==
    (current * (10 - AlphaTenths) + new_value * AlphaTenths) \div 10

\* float(value) if isinstance(value, (int, float, str)) else 0.5; a string
\* does not get here, _normalize_analysis_values and _basic_input_analysis
\* leave none
Observed(v) == IF v.kind = "num" THEN v.num ELSE T(5)

\* one key of the model: updated if the key is in the analysis
Smoothed(current, v) ==
    IF v.kind = "absent" THEN current ELSE Smooth(current, Observed(v))

UpdatePlayerBehaviorModelShared(model, analysis) ==
    [model EXCEPT
        !.preferred_play_style =
            IF Truthy(analysis.play_style) /\ @ = "unknown"
            THEN analysis.play_style.text ELSE @,
        !.risk_tolerance = Smoothed(@, analysis.risk_tolerance),
        !.character_attachment = Smoothed(@, analysis.risk_tolerance),
        !.interaction_frequency = Smoothed(@, analysis.risk_tolerance)]

\* the update taking the analysed play style in every cycle
UpdatePlayerBehaviorModelOverwrite(model, analysis) ==
    [model EXCEPT
        !.preferred_play_style =
            IF Truthy(analysis.play_style)
            THEN analysis.play_style.text ELSE @,
        !.risk_tolerance = Smoothed(@, analysis.risk_tolerance),
        !.character_attachment = Smoothed(@, analysis.character_attachment),
        !.interaction_frequency = Smoothed(@, analysis.interaction_level)]

\* _update_player_behavior_model
UpdatePlayerBehaviorModel(model, analysis) ==
    [model EXCEPT
        !.preferred_play_style =
            IF Truthy(analysis.play_style) /\ @ = "unknown"
            THEN analysis.play_style.text ELSE @,
        !.risk_tolerance = Smoothed(@, analysis.risk_tolerance),
        !.character_attachment = Smoothed(@, analysis.character_attachment),
        !.interaction_frequency = Smoothed(@, analysis.interaction_level)]

(***************************************************************************)
(* services/agentic_ai.py: decisions                                       *)
(***************************************************************************)
NoCharacter == [present |-> FALSE, character_class |-> "", current_hit_points |-> 0,
                max_hit_points |-> 0]
Characters ==
    { NoCharacter,
      [present |-> TRUE, character_class |-> "wizard", current_hit_points |-> 3,
       max_hit_points |-> 10],
      [present |-> TRUE, character_class |-> "wizard", current_hit_points |-> 10,
       max_hit_points |-> 10] }

\* a campaign is the list of its NPCs, each the set of its personality traits;
\* the empty list also stands for no campaign
Campaigns ==
    { <<>>,
      << {"Friendly"}, {"Grumpy"}, {"Friendly", "Curious"}, {"Friendly"} >> }

NoDevelopment == [planned |-> FALSE, opportunities |-> <<>>]

\* _plan_character_development; the caller has checked that the risk
\* tolerance of the analysis can be compared with 0.3
PlanCharacterDevelopment(character, analysis) ==
    [planned |-> TRUE,
     opportunities |->
        (IF 2 * character.current_hit_points < character.max_hit_points
         THEN <<"healing_opportunity">> ELSE <<>>)
        \o (IF analysis.risk_tolerance.kind = "num"
               /\ analysis.risk_tolerance.num < T(3)
            THEN <<"courage_test">> ELSE <<>>)
        \o (IF character.character_class = "wizard" THEN <<"magical_discovery">>
            ELSE IF character.character_class = "rogue"
            THEN <<"stealth_challenge">> ELSE <<>>)]

\* _decide_npc_action for the NPC number i; draw says random.random() < 0.3.
\* "none" stands for None.
DecideNpcAction(traits, analysis, story_direction, draw) ==
    IF "Friendly" \in traits /\ analysis.emotional_state = Str("frustrated")
    THEN "offer_help"
    ELSE IF story_direction = "introduce_conflict" /\ draw
    THEN "reveal_information"
    ELSE "none"

Min(a, b) == IF a < b THEN a ELSE b
Max(a, b) == IF a > b THEN a ELSE b

\* campaign.npcs[:3]
ImportantNpcs == 3

\* the actions of all NPCs of the campaign
RECURSIVE NpcActionsAll(_, _, _, _, _)
NpcActionsAll(campaign, i, analysis, story_direction, draws) ==
    IF i > Len(campaign) THEN <<>>
    ELSE LET act == DecideNpcAction(campaign[i], analysis, story_direction,
                                    i \in draws)
         IN  (IF act = "none" THEN <<>> ELSE << <<i, act>> >>)
             \o NpcActionsAll(campaign, i + 1, analysis, story_direction, draws)

\* _make_autonomous_decisions, "Decision 3": the actions of the first three
\* NPCs, as <<NPC number, action>>
RECURSIVE NpcActions(_, _, _, _, _)
NpcActions(campaign, i, analysis, story_direction, draws) ==
    IF i > Min(Len(campaign), ImportantNpcs) THEN <<>>
    ELSE LET act == DecideNpcAction(campaign[i], analysis, story_direction,
                                    i \in draws)
         IN  (IF act = "none" THEN <<>> ELSE << <<i, act>> >>)
             \o NpcActions(campaign, i + 1, analysis, story_direction, draws)

\* _decide_world_event; draw says random.random() < 0.2
DecideWorldEvent(world, tension_adjustment, draw) ==
    IF tension_adjustment = "increase" THEN <<"distant_commotion">>
    ELSE IF world.time_of_day = "night" /\ draw THEN <<"mysterious_arrival">>
    ELSE <<>>

\* _make_autonomous_decisions, for the model as already updated in this cycle
MakeAutonomousDecisions(model, world, analysis, character, campaign, tie, draws, night_draw) ==
    LET current_tension == world.political_tension
        risk == model.risk_tolerance
        story_direction ==
            IF analysis.play_style = Str("exploration") THEN "reveal_mystery"
            ELSE IF analysis.emotional_state = Str("excited") THEN "escalate_action"
            ELSE IF current_tension < T(3) /\ Gt(risk, T(6), tie)
            THEN "introduce_conflict"
            ELSE "character_development"
        tension_adjustment ==
            IF current_tension > T(8) /\ Lt(risk, T(4), tie) THEN "reduce"
            ELSE IF current_tension < T(2) /\ Gt(risk, T(7), tie) THEN "increase"
            ELSE "maintain"
    IN  [story_direction |-> story_direction,
         tension_adjustment |-> tension_adjustment,
         npc_actions |-> NpcActions(campaign, 1, analysis, story_direction, draws),
         world_events |-> DecideWorldEvent(world, tension_adjustment, night_draw),
         character_development |->
            IF character.present /\ Gt(model.character_attachment, T(6), tie)
            THEN PlanCharacterDevelopment(character, analysis)
            ELSE NoDevelopment]

\* input_analysis.get("risk_tolerance", 0.5) < 0.3 in _plan_character_development
\* raises TypeError for a value that is no number
DecisionsRaise(model, analysis, character, tie) ==
    /\ character.present
    /\ Gt(model.character_attachment, T(6), tie)
    /\ analysis.risk_tolerance.kind = "other"

(***************************************************************************)
(* services/agentic_ai.py: backlog                                         *)
(***************************************************************************)
\* _plan_future_actions
PlanFutureActions(planned, decisions) ==
    SelectSeq(planned, LAMBDA a : a.priority >= 7)
    \o (IF decisions.story_direction = "reveal_mystery"
        THEN << [action_type |-> "introduce_clue", priority |-> 8,
                 opportunities |-> <<>>] >>
        ELSE <<>>)
    \o (IF decisions.character_development.planned
        THEN << [action_type |-> "character_growth_opportunity", priority |-> 7,
                 opportunities |-> decisions.character_development.opportunities] >>
        ELSE <<>>)

\* sorted(self.planned_actions, key=lambda x: x.priority, reverse=True): a
\* stable sort, entries of one priority keep their order
RECURSIVE SortedFrom(_, _)
SortedFrom(planned, p) ==
    IF p = 0 THEN <<>>
    ELSE SelectSeq(planned, LAMBDA a : a.priority = p) \o SortedFrom(planned, p - 1)

\* priorities are on a scale of 1 to 10
TopPriority == 10

InSeq(x, seq) == \E i \in 1..Len(seq) : seq[i] = x

\* _execute_action: the content of the fragment, "" for None
ExecuteAction(action) ==
    IF action.action_type = "introduce_clue"
    THEN "You notice something unusual that catches your attention..."
    ELSE IF /\ action.action_type = "character_growth_opportunity"
            /\ InSeq("healing_opportunity", action.opportunities)
    THEN "A warm, magical spring bubbles nearby, emanating healing energy."
    ELSE ""

\* list.remove(x): without the first element equal to x
RemoveFirst(seq, x) ==
    LET i == CHOOSE j \in 1..Len(seq) :
                seq[j] = x /\ \A k \in 1..(j - 1) : seq[k] # x
    IN  SubSeq(seq, 1, i - 1) \o SubSeq(seq, i + 1, Len(seq))

\* sorted_actions[:2]
ExecutedPerCycle == 2

\* _execute_planned_actions over the entries todo: the fragments and the
\* backlog that is left
RECURSIVE ExecuteEach(_, _, _)
ExecuteEach(todo, planned, executed) ==
    IF todo = <<>> THEN [executed |-> executed, planned |-> planned]
    ELSE LET result == ExecuteAction(Head(todo))
         IN  IF result # ""
             THEN ExecuteEach(Tail(todo), RemoveFirst(planned, Head(todo)),
                              Append(executed, result))
             ELSE ExecuteEach(Tail(todo), planned, executed)

ExecutePlannedActions(planned) ==
    LET sorted_actions == SortedFrom(planned, TopPriority)
    IN  ExecuteEach(SubSeq(sorted_actions, 1,
                           Min(ExecutedPerCycle, Len(sorted_actions))),
                    planned, <<>>)

(***************************************************************************)
(* services/agentic_ai.py: memory, world state, the cycle                  *)
(***************************************************************************)
\* if len(self.conversation_context) > 20: keep the last 20
ContextCap == 20
\* if len(self.memory.player_emotional_responses) > 10: keep the last 10
EmotionCap == 10

LastOf(seq, n) == IF Len(seq) > n THEN SubSeq(seq, Len(seq) - n + 1, Len(seq)) ELSE seq

\* the 0.1 of the tension adjustments, in tenths
TensionStep == 1

AdjustedWorldUnclamped(world, decisions) ==
    [world EXCEPT !.political_tension =
        IF decisions.tension_adjustment = "increase" THEN @ + T(TensionStep)
        ELSE IF decisions.tension_adjustment = "reduce" THEN @ - T(TensionStep)
        ELSE @]

\* _update_memory_and_world_state, "Update world state based on decisions"
AdjustedWorld(world, decisions) ==
    [world EXCEPT !.political_tension =
        IF decisions.tension_adjustment = "increase"
        THEN Min(Unit, @ + T(TensionStep))
        ELSE IF decisions.tension_adjustment = "reduce"
        THEN Max(0, @ - T(TensionStep))
        ELSE @]

NoDecisions ==
    [story_direction |-> "none", tension_adjustment |-> "none",
     npc_actions |-> <<>>, world_events |-> <<>>,
     character_development |-> NoDevelopment]

\* how a process_player_input call ended: status "ok" with the fragments
\* appended to the response, or "error" with the exception it raised
\* ("missing_key", "api_failed" from _generate_agentic_response, "type_error"
\* from _plan_character_development); collaborator says what the render step
\* met: "unavailable" (no client), "raised" (the call failed), "answered", or
\* "not_called" when the cycle did not get to the render step; analyzed_by
\* says where the analysis of the cycle came from: "collaborator" (parsed from
\* its reply) or "fallback" (_basic_input_analysis); campaign is the campaign
\* argument of the call
DmResult(status, error, analysis, decisions, executed, collaborator, analyzed_by, campaign) ==
    [status |-> status, error |-> error, analysis |-> analysis,
     decisions |-> decisions, executed |-> executed,
     collaborator |-> collaborator, analyzed_by |-> analyzed_by,
     campaign |-> campaign]

RenderOutcomeFallback(client, render_raises) == "ok"

\* _generate_agentic_response: "ok" for a response, or the exception it raises
RenderOutcome(client, render_raises) ==
    IF ~client THEN "missing_key"
    ELSE IF render_raises THEN "api_failed"
    ELSE "ok"

\* a world that starts out peaceful
InitializeWorldStateCalm ==
    [time_of_day |-> "evening", political_tension |-> T(1),
     magical_activity |-> T(4), economic_state |-> T(6)]

\* _initialize_world_state
InitializeWorldState ==
    [time_of_day |-> "evening", political_tension |-> T(3),
     magical_activity |-> T(4), economic_state |-> T(6)]

\* AgenticDungeonMaster.__init__; client says whether _initialize_claude
\* returned a client
AgentInit(client) ==
    /\ anthropic = client
    /\ player_behavior_model =
         [preferred_play_style |-> "unknown", risk_tolerance |-> T(5),
          narrative_preference |-> "unknown", interaction_frequency |-> T(5),
          character_attachment |-> T(5)]
    /\ world_state = InitializeWorldState
    /\ planned_actions = <<>>
    /\ conversation_context = <<>>
    /\ past_decisions = <<>>
    /\ player_emotional_responses = <<>>
    /\ cycles = 0
    /\ dm_result = DmResult("none", "", BasicInputAnalysis(""), NoDecisions, <<>>,
                              "not_called", "fallback", <<>>)

\* _update_memory_and_world_state, for the ai_decisions of the response
UpdateMemoryAndWorldState(analysis, decisions) ==
    /\ conversation_context' =
         LastOf(Append(conversation_context,
                       [cycle |-> cycles + 1,
                        player_input |-> analysis,
                        decisions_made |-> decisions,
                        world_state_snapshot |-> world_state]),
                ContextCap)
    /\ world_state' = AdjustedWorld(world_state, decisions)
    /\ past_decisions' =
         Append(past_decisions, [decision |-> decisions, context |-> analysis])
    /\ player_emotional_responses' =
         IF Truthy(analysis.emotional_state)
         THEN LastOf(Append(player_emotional_responses,
                            analysis.emotional_state.text),
                     EmotionCap)
         ELSE player_emotional_responses

\* process_player_input
ProcessPlayerInput(player_input, reply, character, campaign, render_raises, tie, draws, night_draw) ==
    LET analysis == AnalyzePlayerInput(anthropic, player_input, reply)
        model == UpdatePlayerBehaviorModel(player_behavior_model, analysis)
        decisions ==
            MakeAutonomousDecisions(model, world_state, analysis, character,
                                    campaign, tie, draws, night_draw)
        run == ExecutePlannedActions(PlanFutureActions(planned_actions, decisions))
        render == RenderOutcome(anthropic, render_raises)
        met == IF ~anthropic THEN "unavailable"
               ELSE IF render_raises THEN "raised" ELSE "answered"
        by == AnalyzedBy(anthropic, reply)
    IN  /\ cycles < MaxCycles
        /\ cycles' = cycles + 1
        /\ player_behavior_model' = model
        /\ UNCHANGED <<anthropic, session_vars, dice_vars>>
        /\ IF DecisionsRaise(model, analysis, character, tie)
           THEN /\ dm_result' = DmResult("error", "type_error", analysis,
                                          NoDecisions, <<>>, "not_called", by,
                                          campaign)
                /\ UNCHANGED <<world_state, planned_actions, conversation_context,
                               past_decisions, player_emotional_responses>>
           ELSE /\ planned_actions' = run.planned
                /\ IF render # "ok"
                   THEN /\ dm_result' = DmResult("error", render, analysis,
                                                  decisions, <<>>, met, by,
                                                  campaign)
                        /\ UNCHANGED <<world_state, conversation_context,
                                       past_decisions, player_emotional_responses>>
                   ELSE /\ dm_result' = DmResult("ok", "", analysis, decisions,
                                                  run.executed, met, by, campaign)
                        /\ UpdateMemoryAndWorldState(analysis, decisions)

(***************************************************************************)
(* multiplayer_session.py                                                  *)
(***************************************************************************)
SessionState ==
    {"waiting", "active", "combat", "exploration", "social", "paused",
     "completed"}

\* MultiplayerSession._initialize_turn_order: the human, then the companions in
\* roster order.  random.shuffle(self.turn_order[1:]) shuffles the copy that
\* the slice makes and leaves turn_order as it is.
InitializeTurnOrder(human_player_name, ai_players) ==
    <<human_player_name>> \o [i \in 1..Len(ai_players) |-> ai_players[i].name]

\* MultiplayerSession(...) with __post_init__
MultiplayerSession(session_id, human_player_name, voice_mode, session_state) ==
    [session_id |-> session_id,
     human_player_name |-> human_player_name,
     session_state |-> session_state,
     ai_players |-> get_ai_players,
     turn_order |-> InitializeTurnOrder(human_player_name, get_ai_players),
     current_turn_index |-> 0,
     game_turns |-> <<>>,
     voice_mode |-> voice_mode,
     total_turns |-> 0]

\* GameTurn(player_type=TurnType.HUMAN, ...)
HumanTurn(player_name, action, dialogue) ==
    [player_name |-> player_name, player_type |-> "human", action |-> action,
     dialogue |-> dialogue, voice_id |-> NoOne]

\* GameTurn(player_type=TurnType.AI, ...) from a response dictionary, with the
\* defaults of ai_response.get(...)
AiTurn(player_name, ai_response) ==
    [player_name |-> player_name, player_type |-> "ai",
     action |-> IF ai_response.found THEN ai_response.action_type ELSE "roleplay",
     dialogue |-> IF ai_response.found THEN ai_response.response ELSE "",
     voice_id |-> IF ai_response.found THEN ai_response.voice_id ELSE NoOne]

\* situation = f"{action}. {dialogue}" if dialogue else action
SituationKeywords(action, dialogue) ==
    KeywordsOf(action) \cup (IF dialogue # "" THEN KeywordsOf(dialogue) ELSE {})

\* process_player_action, "Generate AI responses": one record per companion of
\* the session, in the order of session.ai_players
CompanionTurnsSkipFirst(session, kw) ==
    [i \in 1..(Len(session.ai_players) - 1) |->
        AiTurn(session.ai_players[i + 1].name,
               generate_ai_player_response(session.ai_players[i + 1].name, kw))]

CompanionTurns(session, kw) ==
    [i \in 1..Len(session.ai_players) |->
        AiTurn(session.ai_players[i].name,
               generate_ai_player_response(session.ai_players[i].name, kw))]

\* "Advance turn"
AdvanceTurnNoWrap(session) ==
    [session EXCEPT !.current_turn_index = @ + 1, !.total_turns = @ + 1]

\* the advance counting the turn and leaving the pointer
AdvanceTurnCounterOnly(session) ==
    [session EXCEPT !.total_turns = @ + 1]

AdvanceTurn(session) ==
    [session EXCEPT
        !.current_turn_index = (@ + 1) % Len(session.turn_order),
        !.total_turns = @ + 1]

\* process_player_action on a stored session: the session afterwards
RECURSIVE AdvanceTimes(_, _)
AdvanceTimes(session, n) ==
    IF n = 0 THEN session ELSE AdvanceTimes(AdvanceTurn(session), n - 1)

ProcessedSessionAdvanceEach(session, player_name, action, dialogue) ==
    AdvanceTimes(
        [session EXCEPT !.game_turns =
            Append(@, HumanTurn(player_name, action, dialogue))
            \o CompanionTurns(session, SituationKeywords(action, dialogue))],
        1 + Len(session.ai_players))

ProcessedSession(session, player_name, action, dialogue) ==
    AdvanceTurn(
        [session EXCEPT !.game_turns =
            Append(@, HumanTurn(player_name, action, dialogue))
            \o CompanionTurns(session, SituationKeywords(action, dialogue))])

\* _analyze_current_situation: the keyword sets the situation text can have
AnalyzeCurrentSituation(session) ==
    IF session.game_turns = <<>>
    THEN {{}}
    ELSE LET recent_turn == session.game_turns[Len(session.game_turns)]
         IN  {KeywordsOf(recent_turn.action) \cup KeywordsOf(recent_turn.dialogue)
                \cup k : k \in LineKeywords(recent_turn.dialogue)}

\* generate_ai_turn keeping only the turn it made
AiTurnSessionLatestOnly(session, ai_player_name, kw) ==
    AdvanceTurn(
        [session EXCEPT !.game_turns =
            <<AiTurn(ai_player_name,
                     generate_ai_player_response(ai_player_name, kw))>>])

\* generate_ai_turn on a stored session: the session afterwards
AiTurnSession(session, ai_player_name, kw) ==
    AdvanceTurn(
        [session EXCEPT !.game_turns =
            Append(@, AiTurn(ai_player_name,
                             generate_ai_player_response(ai_player_name, kw)))])

\* self.active_sessions[session_id] = session
StoreWith(store, session_id, session) ==
    [s \in (DOMAIN store) \cup {session_id} |->
        IF s = session_id THEN session ELSE store[s]]

\* del multiplayer_manager.active_sessions[session_id]
StoreWithout(store, session_id) ==
    [s \in (DOMAIN store) \ {session_id} |-> store[s]]

NotFound == "Session not found"

\* what a call returned: its operation, the id it was given, its error ("" for
\* none) and the voice_mode it reports; repeated says of a successful
\* toggle_voice_mode that the call before it was a successful
\* toggle_voice_mode of the same session; human_action is the "human_action"
\* entry of what process_player_action returns
NoInput == [player_name |-> "", action |-> "", dialogue |-> ""]

Outcome(op, session_id, error, voice_mode) ==
    [op |-> op, session_id |-> session_id, error |-> error,
     voice_mode |-> voice_mode, human_action |-> NoInput,
     repeated |-> /\ op = "toggle_voice_mode"
                  /\ error = ""
                  /\ last_call.op = op
                  /\ last_call.session_id = session_id
                  /\ last_call.error = ""]

\* a player_action request of the HTTP layer: where its handler stands (idle,
\* suspended in an await of create_voice_direct, or done), the id it was sent
\* for, the companion voices still to synthesize and the HTTP status it ended
\* with; resumed_after_end says that the handler was resumed from an await
\* after its session had been ended
NoRequest ==
    [pc |-> "idle", session_id |-> 0, voices_left |-> 0, status |-> 0,
     resumed_after_end |-> FALSE]

\* MultiplayerSessionManager.__init__, and no request in flight
SessionInit ==
    /\ active_sessions = <<>>
    /\ next_id = 1
    /\ last_call = [op |-> "none", session_id |-> 0, error |-> "",
                    voice_mode |-> FALSE, human_action |-> NoInput,
                    repeated |-> FALSE]
    /\ requests = [r \in 1..MaxRequests |-> NoRequest]

Init == SessionInit /\ AgentInit(TRUE) /\ DiceInit

\* the turns taken in the stored sessions together
RECURSIVE TurnsOf(_, _)
TurnsOf(store, ids) ==
    IF ids = {} THEN 0
    ELSE LET s == CHOOSE x \in ids : TRUE
         IN  store[s].total_turns + TurnsOf(store, ids \ {s})

TurnsInStore == TurnsOf(active_sessions, DOMAIN active_sessions)

\* MultiplayerSessionManager.create_session
CreateSession(human_player_name, voice_mode, max_id) ==
    /\ next_id <= max_id
    /\ active_sessions' =
         StoreWith(active_sessions, next_id,
                   MultiplayerSession(next_id, human_player_name, voice_mode,
                                      "active"))
    /\ next_id' = next_id + 1
    /\ last_call' = Outcome("create_session", next_id, "", voice_mode)
    /\ UNCHANGED <<requests, agent_vars, dice_vars>>

\* the store after process_player_action(session_id, ...)
StoreAfterPlayerActionUpsert(store, session_id, input) ==
    IF session_id \in DOMAIN store
    THEN StoreWith(store, session_id,
                   ProcessedSession(store[session_id], input.player_name,
                                    input.action, input.dialogue))
    ELSE StoreWith(store, session_id,
                   MultiplayerSession(session_id, input.player_name, TRUE,
                                      "active"))

StoreAfterPlayerAction(store, session_id, input) ==
    IF session_id \in DOMAIN store
    THEN StoreWith(store, session_id,
                   ProcessedSession(store[session_id], input.player_name,
                                    input.action, input.dialogue))
    ELSE store

\* MultiplayerSessionManager.process_player_action
ProcessPlayerAction(session_id, input, cap) ==
    /\ session_id \in DOMAIN active_sessions => TurnsInStore < cap
    /\ active_sessions' = StoreAfterPlayerAction(active_sessions, session_id, input)
    /\ last_call' =
         IF session_id \in DOMAIN active_sessions
         THEN [Outcome("process_player_action", session_id, "",
                       active_sessions[session_id].voice_mode)
                  EXCEPT !.human_action = input]
         ELSE Outcome("process_player_action", session_id, NotFound, FALSE)
    /\ UNCHANGED <<next_id, requests, agent_vars, dice_vars>>

\* MultiplayerSessionManager.generate_ai_turn
GenerateAiTurn(session_id, ai_player_name, cap) ==
    /\ IF session_id \in DOMAIN active_sessions
       THEN /\ TurnsInStore < cap
            /\ \E kw \in AnalyzeCurrentSituation(active_sessions[session_id]) :
                 active_sessions' =
                   StoreWith(active_sessions, session_id,
                             AiTurnSession(active_sessions[session_id],
                                           ai_player_name, kw))
            /\ last_call' = Outcome("generate_ai_turn", session_id, "",
                                    active_sessions[session_id].voice_mode)
       ELSE /\ UNCHANGED active_sessions
            /\ last_call' = Outcome("generate_ai_turn", session_id, NotFound, FALSE)
    /\ UNCHANGED <<next_id, requests, agent_vars, dice_vars>>

\* get_session_info, and the endpoint get_session that turns None into 404
GetSessionInfo(session_id) ==
    /\ last_call' =
         IF session_id \in DOMAIN active_sessions
         THEN Outcome("get_session_info", session_id, "",
                      active_sessions[session_id].voice_mode)
         ELSE Outcome("get_session_info", session_id, NotFound, FALSE)
    /\ UNCHANGED <<active_sessions, next_id, requests, agent_vars, dice_vars>>

\* session.voice_mode = not session.voice_mode
ToggledKeep(session) == session

Toggled(session) == [session EXCEPT !.voice_mode = ~@]

\* api/multiplayer.py toggle_voice_mode
ToggleVoiceMode(session_id) ==
    /\ IF session_id \in DOMAIN active_sessions
       THEN /\ active_sessions' =
                 StoreWith(active_sessions, session_id,
                           Toggled(active_sessions[session_id]))
            /\ last_call' = Outcome("toggle_voice_mode", session_id, "",
                                    Toggled(active_sessions[session_id]).voice_mode)
       ELSE /\ UNCHANGED active_sessions
            /\ last_call' = Outcome("toggle_voice_mode", session_id, NotFound, FALSE)
    /\ UNCHANGED <<next_id, requests, agent_vars, dice_vars>>

\* the store after the endpoint end_session
StoreAfterEndKeep(store, session_id) == store

StoreAfterEnd(store, session_id) ==
    IF session_id \in DOMAIN store THEN StoreWithout(store, session_id) ELSE store

\* api/multiplayer.py end_session
EndSession(session_id) ==
    /\ active_sessions' = StoreAfterEnd(active_sessions, session_id)
    /\ last_call' =
         IF session_id \in DOMAIN active_sessions
         THEN Outcome("end_session", session_id, "", FALSE)
         ELSE Outcome("end_session", session_id, NotFound, FALSE)
    /\ UNCHANGED <<next_id, requests, agent_vars, dice_vars>>

Next ==
    \/ \E h \in HumanNames, v \in BOOLEAN : CreateSession(h, v, MaxSessions)
    \/ \E s \in CallIds, i \in PlayerInputs : ProcessPlayerAction(s, i, MaxTurns)
    \/ \E s \in CallIds, n \in AiTurnNames : GenerateAiTurn(s, n, MaxTurns)
    \/ \E s \in CallIds : GetSessionInfo(s)
    \/ \E s \in CallIds : ToggleVoiceMode(s)
    \/ \E s \in CallIds : EndSession(s)

Spec == Init /\ [][Next]_vars

\* one session driven for many turns
LongNext ==
    \/ \E h \in HumanNames, v \in BOOLEAN : CreateSession(h, v, 1)
    \/ \E i \in PlayerInputs : ProcessPlayerAction(1, i, MaxLongTurns)
    \/ \E n \in LongAiTurnNames : GenerateAiTurn(1, n, MaxLongTurns)

LongSpec == Init /\ [][LongNext]_vars

(***************************************************************************)
(* Properties of the session manager                                       *)
(***************************************************************************)
Stored == DOMAIN active_sessions

\* ids that were handed out and are no longer stored: ended sessions
Ended == {s \in 1..(next_id - 1) : s \notin Stored}

HumanCount(session) ==
    Cardinality({i \in 1..Len(session.game_turns) :
                    session.game_turns[i].player_type = "human"})

\* no generate_ai_turn has run on the session: all its records are the
\* human record and the companion records of process_player_action calls
OnlyPlayerActions(session) ==
    Len(session.game_turns) = (1 + Len(session.ai_players)) * HumanCount(session)

\* the step taken is a successful call of op on session_id
Called(op, session_id) ==
    /\ last_call'.op = op
    /\ last_call'.session_id = session_id
    /\ last_call'.error = ""

\* C1: after N successful process_player_action calls on a fresh session and
\* no other operation on it, current_turn_index is N modulo len(turn_order)
\* and total_turns is N.
C1_TurnIndexIsCallsModuloOrder ==
    \A sid \in Stored :
        LET session == active_sessions[sid]
            n == HumanCount(session)
        IN  OnlyPlayerActions(session) =>
              /\ session.current_turn_index = n % Len(session.turn_order)
              /\ session.total_turns = n

\* a session that took more player actions than its turn order is long, so
\* that the index has wrapped around
C1_Witness ==
    \E sid \in Stored :
        /\ OnlyPlayerActions(active_sessions[sid])
        /\ HumanCount(active_sessions[sid]) > Len(active_sessions[sid].turn_order)

\* C2: process_player_action with a session id that is not stored returns the
\* session-not-found error and leaves the store and every stored session as
\* they were.
C2_UnknownIdLeavesStore ==
    [][ (/\ last_call'.op = "process_player_action"
         /\ last_call'.session_id \notin Stored)
        => (/\ last_call'.error = NotFound
            /\ active_sessions' = active_sessions) ]_vars

\* an unknown id was rejected while a session with a history was stored
C2_Witness ==
    /\ last_call.op = "process_player_action"
    /\ last_call.error = NotFound
    /\ last_call.session_id \notin Stored
    /\ \E sid \in Stored : active_sessions[sid].game_turns # <<>>

\* C3: a successful process_player_action on a session with k companions
\* appends exactly k+1 records to its history: the human record with the
\* submitted name, action and dialogue, then one companion record per
\* companion of the session, in roster order.
C3_AppendsHumanThenCompanions ==
    [][ \A sid \in Stored :
          Called("process_player_action", sid) =>
            LET session == active_sessions[sid]
                old == session.game_turns
                new == active_sessions'[sid].game_turns
                k == Len(session.ai_players)
                submitted == last_call'.human_action
            IN  /\ Len(new) = Len(old) + k + 1
                /\ SubSeq(new, 1, Len(old)) = old
                /\ new[Len(old) + 1].player_type = "human"
                /\ new[Len(old) + 1].player_name = submitted.player_name
                /\ new[Len(old) + 1].action = submitted.action
                /\ new[Len(old) + 1].dialogue = submitted.dialogue
                /\ \A i \in 1..k :
                     /\ new[Len(old) + 1 + i].player_type = "ai"
                     /\ new[Len(old) + 1 + i].player_name =
                          session.ai_players[i].name ]_vars

\* a player action, submitted under a name that is not the session's human,
\* was appended to a history that already held records
C3_Witness ==
    /\ last_call.op = "process_player_action"
    /\ last_call.error = ""
    /\ last_call.session_id \in Stored
    /\ LET session == active_sessions[last_call.session_id]
       IN  /\ Len(session.game_turns) > 1 + Len(session.ai_players)
           /\ last_call.human_action.player_name # session.human_player_name
           /\ last_call.human_action.dialogue # ""

\* C4: right after create_session, for any human name, the turn order has the
\* human at index 0, has length companions + 1, holds every companion name
\* exactly once and no name twice, and current_turn_index is 0.
C4_FreshTurnOrder ==
    (last_call.op = "create_session" /\ last_call.session_id \in Stored) =>
        LET session == active_sessions[last_call.session_id]
            order == session.turn_order
        IN  /\ order[1] = session.human_player_name
            /\ Len(order) = Len(session.ai_players) + 1
            /\ \A i \in 1..Len(session.ai_players) :
                 Cardinality({j \in 1..Len(order) :
                                order[j] = session.ai_players[i].name}) = 1
            /\ \A i, j \in 1..Len(order) : order[i] = order[j] => i = j
            /\ session.current_turn_index = 0

\* C5: end_session on a stored id removes it, and afterwards get_session_info
\* and process_player_action for that id report session-not-found; end_session
\* on an id that is not stored fails with session-not-found and changes nothing.
C5_EndSessionRemoves ==
    [][ /\ \A sid \in CallIds :
             last_call'.op = "end_session" /\ last_call'.session_id = sid =>
               IF sid \in Stored
               THEN /\ last_call'.error = ""
                    /\ sid \notin DOMAIN active_sessions'
                    /\ \A o \in Stored \ {sid} :
                         /\ o \in DOMAIN active_sessions'
                         /\ active_sessions'[o] = active_sessions[o]
               ELSE /\ last_call'.error = NotFound
                    /\ active_sessions' = active_sessions
        /\ \A sid \in Ended :
             /\ sid \notin DOMAIN active_sessions'
             /\ (/\ last_call'.op \in {"get_session_info", "process_player_action"}
                 /\ last_call'.session_id = sid)
                  => last_call'.error = NotFound ]_vars

\* get_session_info or process_player_action was called for an ended session
C5_Witness ==
    /\ last_call.op \in {"get_session_info", "process_player_action"}
    /\ last_call.session_id \in Ended
    /\ last_call.error = NotFound

\* C6 as claimed: total_turns is the number of human actions processed for the
\* session, whatever operations ran on it.
C6_CounterCountsHumanActions ==
    \A sid \in Stored :
        active_sessions[sid].total_turns = HumanCount(active_sessions[sid])

\* C6 as amended: the counter and the turn pointer advance exactly once per
\* processed human action and once per generate_ai_turn call, and in no other
\* step; the companion reactions of a human action do not advance them.
C6_AdvanceOncePerTurnCall ==
    [][ \A sid \in Stored \cap DOMAIN active_sessions' :
          LET old == active_sessions[sid]
              new == active_sessions'[sid]
          IN  IF \/ Called("process_player_action", sid)
                 \/ Called("generate_ai_turn", sid)
              THEN /\ new.total_turns = old.total_turns + 1
                   /\ new.current_turn_index =
                        (old.current_turn_index + 1) % Len(old.turn_order)
              ELSE /\ new.total_turns = old.total_turns
                   /\ new.current_turn_index = old.current_turn_index ]_vars

\* a companion took a turn of its own in a session that had processed a human
\* action
C6_Witness ==
    /\ last_call.op = "generate_ai_turn"
    /\ last_call.error = ""
    /\ last_call.session_id \in Stored
    /\ HumanCount(active_sessions[last_call.session_id]) >= 1
    /\ active_sessions[last_call.session_id].total_turns
         > HumanCount(active_sessions[last_call.session_id])

\* the step is the second of two successful toggle_voice_mode calls in a row
\* on session sid
ToggledTwice(sid) ==
    /\ last_call.op = "toggle_voice_mode"
    /\ last_call.session_id = sid
    /\ last_call.error = ""
    /\ Called("toggle_voice_mode", sid)

\* C9 as claimed: the voice-mode operation is idempotent, the flag after two
\* applications in a row is the flag after one.
C9_VoiceToggleIdempotent ==
    [][ \A sid \in Stored \cap DOMAIN active_sessions' :
          ToggledTwice(sid) =>
            active_sessions'[sid].voice_mode = active_sessions[sid].voice_mode ]_vars

\* C9 as amended: every application inverts the voice flag and reports the
\* new value, so the second of two applications in a row undoes the first.
C9_VoiceToggleInverts ==
    [][ \A sid \in Stored \cap DOMAIN active_sessions' :
          Called("toggle_voice_mode", sid) =>
            /\ active_sessions'[sid].voice_mode = ~active_sessions[sid].voice_mode
            /\ last_call'.voice_mode = active_sessions'[sid].voice_mode
            /\ ToggledTwice(sid) =>
                 active_sessions'[sid].voice_mode = ~last_call.voice_mode ]_vars

\* the operation was applied twice in a row to a stored session
C9_Witness ==
    /\ last_call.op = "toggle_voice_mode"
    /\ last_call.repeated
    /\ last_call.session_id \in Stored

(***************************************************************************)
(* Sessions in any state of SessionState                                   *)
(***************************************************************************)
\* The store holds one session as the data class admits it: session_state is
\* any member of SessionState (the data class defaults to WAITING;
\* create_session, the only writer of the field, passes ACTIVE and no
\* operation changes the field afterwards).
GateInit ==
    /\ \E h \in HumanNames, v \in BOOLEAN, st \in SessionState :
         active_sessions = StoreWith(<<>>, 1, MultiplayerSession(1, h, v, st))
    /\ next_id = 2
    /\ last_call = [op |-> "none", session_id |-> 0, error |-> "",
                    voice_mode |-> FALSE, human_action |-> NoInput,
                    repeated |-> FALSE]
    /\ requests = [r \in 1..MaxRequests |-> NoRequest]
    /\ AgentInit(TRUE)
    /\ DiceInit

GateSpec == GateInit /\ [][Next]_vars

ActiveFamily == {"active", "combat", "exploration", "social"}

StoreAfterVoiceWriteBack(store, request) ==
    StoreWith(store, request.session_id,
              MultiplayerSession(request.session_id, "Aria", TRUE, "active"))

StoreAfterVoice(store, request) == store

\* the handler up to its first await: get_session_info, process_player_turn
PlayerActionStart(r, session_id, input, generate_voice, cap) ==
    /\ requests[r].pc = "idle"
    /\ IF session_id \notin Stored
       THEN /\ requests' = [requests EXCEPT ![r] =
                 [NoRequest EXCEPT !.pc = "done", !.session_id = session_id,
                                   !.status = 404]]
            /\ UNCHANGED active_sessions
       ELSE /\ TurnsInStore < cap
            /\ active_sessions' =
                 StoreAfterPlayerAction(active_sessions, session_id, input)
            /\ requests' = [requests EXCEPT ![r] =
                 IF generate_voice
                 THEN [NoRequest EXCEPT
                         !.pc = "await_dm_voice", !.session_id = session_id,
                         !.voices_left = Len(active_sessions[session_id].ai_players)]
                 ELSE [NoRequest EXCEPT !.pc = "done", !.session_id = session_id,
                                        !.status = 200]]
    /\ UNCHANGED <<next_id, last_call, agent_vars, dice_vars>>

\* the request after a resumption
Resumed(request, pc, voices_left, status) ==
    [request EXCEPT
        !.pc = pc, !.voices_left = voices_left, !.status = status,
        !.resumed_after_end = @ \/ request.session_id \in Ended]

\* resumed from the await of the DM voice
PlayerActionDmVoice(r, raised) ==
    /\ requests[r].pc = "await_dm_voice"
    /\ active_sessions' = StoreAfterVoice(active_sessions, requests[r])
    /\ requests' = [requests EXCEPT ![r] =
         IF raised THEN Resumed(@, "done", @.voices_left, 500)
         ELSE IF @.voices_left > 0
         THEN Resumed(@, "await_ai_voice", @.voices_left, 0)
         ELSE Resumed(@, "done", 0, 200)]
    /\ UNCHANGED <<next_id, last_call, agent_vars, dice_vars>>

\* resumed from the await of a companion's voice
PlayerActionAiVoice(r, raised) ==
    /\ requests[r].pc = "await_ai_voice"
    /\ active_sessions' = StoreAfterVoice(active_sessions, requests[r])
    /\ requests' = [requests EXCEPT ![r] =
         IF raised THEN Resumed(@, "done", @.voices_left, 500)
         ELSE IF @.voices_left > 1
         THEN Resumed(@, "await_ai_voice", @.voices_left - 1, 0)
         ELSE Resumed(@, "done", 0, 200)]
    /\ UNCHANGED <<next_id, last_call, agent_vars, dice_vars>>

\* one session, its player_action requests and end_session
AsyncNext ==
    \/ \E h \in HumanNames, v \in BOOLEAN : CreateSession(h, v, 1)
    \/ \E r \in 1..MaxRequests, i \in PlayerInputs, g \in BOOLEAN :
         PlayerActionStart(r, 1, i, g, MaxTurns)
    \/ \E r \in 1..MaxRequests, raised \in BOOLEAN : PlayerActionDmVoice(r, raised)
    \/ \E r \in 1..MaxRequests, raised \in BOOLEAN : PlayerActionAiVoice(r, raised)
    \/ EndSession(1)

AsyncSpec == Init /\ [][AsyncNext]_vars

Suspended == {"await_dm_voice", "await_ai_voice"}

\* C8: whatever the interleaving of end_session with a player_action request
\* in flight on the same session, once end_session has removed the id no later
\* step puts it back into the store, and the request resumed after the removal
\* completes or fails without changing the store.
C8_EndedSessionNotResurrected ==
    [][ /\ \A sid \in Ended : sid \notin DOMAIN active_sessions'
        /\ \A r \in 1..MaxRequests :
             (/\ requests[r].pc \in Suspended
              /\ requests'[r] # requests[r]
              /\ requests[r].session_id \in Ended)
             => /\ active_sessions' = active_sessions
                /\ \/ requests'[r].pc \in Suspended /\ requests'[r].status = 0
                   \/ requests'[r].pc = "done" /\ requests'[r].status \in {200, 500}
        ]_vars

\* a request that was suspended when its session was ended has completed
C8_Witness ==
    \E r \in 1..MaxRequests :
        /\ requests[r].pc = "done"
        /\ requests[r].status = 200
        /\ requests[r].resumed_after_end
        /\ requests[r].session_id \in Ended

(***************************************************************************)
(* The decision engine on its own: process_player_input calls only         *)
(***************************************************************************)
ChatInputs == {"search the room", "attack the guard", "wait"}

\* what the analyze step can meet, as <<player input, reply>>: without a
\* client, or when the call fails, the analysis is made from the player input;
\* otherwise from the reply
AnalyzeCases ==
    { <<player_input, "raises">> : player_input \in ChatInputs }
    \cup (IF anthropic THEN { <<"wait", reply>> : reply \in RichReplies } ELSE {})

\* the draws of random.random() matter only where the code makes them
NpcDraws(campaign) ==
    IF world_state.political_tension < T(3) /\ campaign # <<>>
    THEN SUBSET (1..ImportantNpcs) ELSE {{}}

NightDraws == IF world_state.time_of_day = "night" THEN BOOLEAN ELSE {FALSE}

\* the render call can fail only where there is a client to call
RenderCases == IF anthropic THEN BOOLEAN ELSE {FALSE}

AgentNext ==
    \E case \in AnalyzeCases, character \in Characters, campaign \in Campaigns,
       render_raises \in RenderCases, tie \in BOOLEAN :
        \E draws \in NpcDraws(campaign), night_draw \in NightDraws :
            ProcessPlayerInput(case[1], case[2], character, campaign,
                               render_raises, tie, draws, night_draw)

\* a controller built with or without a client, beside an empty session store
AgentStart ==
    SessionInit /\ DiceInit /\ \E client \in BOOLEAN : AgentInit(client)

AgentSpec == AgentStart /\ [][AgentNext]_vars

BehaviourValues ==
    {player_behavior_model.risk_tolerance,
     player_behavior_model.character_attachment,
     player_behavior_model.interaction_frequency}

\* C10: in every reachable state of a controller, for any analysis the analyze
\* step can produce (collaborator replies with numbers included, or the keyword
\* fallback), risk_tolerance, character_attachment and interaction_frequency
\* of the behaviour model are within [0,1].
C10_BehaviourModelInUnitInterval ==
    \A x \in BehaviourValues : 0 <= x /\ x <= Unit

\* the keys of the behaviour model that are smoothed, each with the key of the
\* analysis it is updated from
SmoothedKeys ==
    { <<"risk_tolerance", "risk_tolerance">>,
      <<"character_attachment", "character_attachment">>,
      <<"interaction_frequency", "interaction_level">> }

\* C11: one update of the behaviour model sets each of risk_tolerance,
\* character_attachment and interaction_frequency to old * 0.8 + observed * 0.2,
\* each from the number under its own key of the analysis (a key that is absent
\* leaves its value alone); old = 0.5 with observed = 1.0 gives 0.6.  The
\* numbers are exact here: the floats of the code are within rounding of them.
C11_SmoothingPerField ==
    [][cycles' = cycles + 1 =>
        \A k \in SmoothedKeys :
            LET old == player_behavior_model[k[1]]
                new == player_behavior_model'[k[1]]
                v == dm_result'.analysis[k[2]]
            IN  /\ v.kind = "num" => 10 * new = 8 * old + 2 * v.num
                /\ v.kind = "absent" => new = old
                /\ (v = Num(T(10)) /\ old = T(5)) => new = T(6)]_vars

\* after one cycle with risk 0.0, attachment 1.0 and interaction 1.0 observed:
\* 0.4, 0.6 and 0.6
C11_Witness ==
    /\ cycles = 1
    /\ dm_result.analysis.risk_tolerance = Num(0)
    /\ dm_result.analysis.character_attachment = Num(T(10))
    /\ player_behavior_model.risk_tolerance = T(4)
    /\ player_behavior_model.character_attachment = T(6)
    /\ player_behavior_model.interaction_frequency = T(6)

(***************************************************************************)
(* The persist step on its own, with the verdicts drawn freely             *)
(***************************************************************************)
\* The decide step yields a tension adjustment by thresholds on the tension and
\* on the behaviour model.  Here every verdict is possible in every cycle, so
\* every sequence of verdicts that a controller can make is among these.
TensionVerdicts == {"increase", "reduce", "maintain"}

\* step 7 of process_player_input after a cycle that decided verdict
PersistStep(verdict) ==
    /\ cycles < MaxAdjustments
    /\ cycles' = cycles + 1
    /\ UpdateMemoryAndWorldState(BasicInputAnalysis("wait"),
                                 [NoDecisions EXCEPT !.tension_adjustment = verdict])
    /\ UNCHANGED <<anthropic, player_behavior_model, planned_actions, dm_result,
                   session_vars, dice_vars>>

WorldNext == \E verdict \in TensionVerdicts : PersistStep(verdict)

WorldStart == SessionInit /\ AgentInit(TRUE) /\ DiceInit

WorldSpec == WorldStart /\ [][WorldNext]_vars

PressureScalars == {"political_tension", "magical_activity", "economic_state"}

\* C12: in every reachable state of a controller, after any number of cycles
\* with any sequence of tension-adjustment verdicts, political_tension,
\* magical_activity and economic_state of the world state are within [0,1].
C12_WorldScalarsInUnitInterval ==
    \A k \in PressureScalars : 0 <= world_state[k] /\ world_state[k] <= Unit

\* a cycle that decided "increase" with the tension at 1.0 already
C12_Witness ==
    /\ conversation_context # <<>>
    /\ LET last == conversation_context[Len(conversation_context)]
       IN  /\ last.world_state_snapshot.political_tension = Unit
           /\ last.decisions_made.tension_adjustment = "increase"
    /\ world_state.political_tension = Unit

\* the state that the persist step writes
memory_vars ==
    <<conversation_context, past_decisions, player_emotional_responses,
      world_state>>

\* C13: when the narrative collaborator is unavailable or its call fails in the
\* render step, process_player_input ends with an error and gives no response
\* text, and the persist step does not run: conversation context, decision
\* history, emotion history and world state are as before the cycle.
C13_RenderFailureIsHard ==
    [][(cycles' = cycles + 1
        /\ dm_result'.collaborator \in {"unavailable", "raised"})
       => /\ dm_result'.status = "error"
          /\ dm_result'.executed = <<>>
          /\ UNCHANGED memory_vars]_vars

\* a cycle whose render call failed, after a cycle that was persisted
C13_Witness ==
    /\ dm_result.collaborator = "raised"
    /\ dm_result.status = "error"
    /\ dm_result.decisions.story_direction = "reveal_mystery"
    /\ Len(conversation_context) = 1
    /\ Len(past_decisions) = 1
    /\ cycles = 2

(***************************************************************************)
(* main.py: the chat operation                                             *)
(***************************************************************************)
\* the texts, of those chat_with_agentic_dm looks for, that the message of an
\* exception of process_player_input contains:
\*   "ANTHROPIC API KEY REQUIRED! ... add a valid ANTHROPIC_API_KEY."
\*   "CLAUDE API FAILED: ... Check your ANTHROPIC_API_KEY and internet connection."
\*   the message of a TypeError
MessageTexts(error) ==
    CASE error = "missing_key" -> {"ANTHROPIC_API_KEY"}
      [] error = "api_failed" -> {"CLAUDE API FAILED", "ANTHROPIC_API_KEY"}
      [] OTHER -> {}

\* chat_with_agentic_dm, except Exception: the diagnostic chosen for a message
ChatDiagnostic(error) ==
    IF "ANTHROPIC_API_KEY" \in MessageTexts(error) THEN "CLAUDE API KEY MISSING"
    ELSE IF "CLAUDE API FAILED" \in MessageTexts(error) THEN "CLAUDE API ERROR"
    ELSE "AI SYSTEM ERROR"

\* chat_with_agentic_dm: what it returns for the cycle that just ended
ChatResponse ==
    IF dm_result.status = "error"
    THEN [action_type |-> "claude_api_error",
          diagnostic |-> ChatDiagnostic(dm_result.error)]
    ELSE [action_type |-> dm_result.decisions.story_direction,
          diagnostic |-> ""]

\* C14: when a cycle fails, the diagnostic of the chat operation tells the
\* failure class: missing credentials, a failed collaborator call and any other
\* error have a diagnostic each, and a failed collaborator call is never
\* reported with the diagnostic of missing credentials.
C14_DiagnosticTellsFailureClass ==
    dm_result.status = "error" =>
        /\ dm_result.collaborator = "unavailable"
              => ChatResponse.diagnostic = "CLAUDE API KEY MISSING"
        /\ dm_result.collaborator = "raised"
              => ChatResponse.diagnostic = "CLAUDE API ERROR"
        /\ dm_result.collaborator = "not_called"
              => ChatResponse.diagnostic = "AI SYSTEM ERROR"

(***************************************************************************)
(* The dice engine on its own                                              *)
(***************************************************************************)
\* The notation of n dice of m sides with modifier k, as the grammar
\* [count]d<sides>[(+|-)modifier] writes it: in full, with the count left out
\* (for one die), or in capitals and with spaces.  A modifier of 0 is left out.
Written(n, m, k, style) ==
    LET count == IF style = "bare" THEN <<>> ELSE NatStr(n)
        letter == IF style = "spaced" THEN <<" ", "D", " ">> ELSE <<"d">>
        modifier == IF k > 0 THEN <<"+">> \o NatStr(k)
                    ELSE IF k < 0 THEN <<"-">> \o NatStr(0 - k)
                    ELSE <<>>
    IN  count \o letter \o NatStr(m) \o modifier

\* the dice that are rolled here: <<count, sides, modifier, style>>
ValidDice ==
    { <<1, 20, 3, "spaced">>, <<1, 20, -1, "bare">>,
      <<2, 2, 0, "full">>, <<2, 2, 3, "full">>, <<2, 2, -1, "spaced">>,
      <<3, 2, -1, "full">>, <<0, 2, 3, "full">>, <<1, 2, 0, "bare">> }

ValidNotations == { Written(v[1], v[2], v[3], v[4]) : v \in ValidDice }

\* texts that are not of the grammar: without a d, without sides, with
\* characters before or after a notation
NotNotations ==
    { <<>>, <<"d">>, <<"2", "d">>, <<"2", "0">>, <<"+", "1">>,
      <<"x", "2", "d", "2">>, <<"2", "d", "2", "x">>, <<"2", "d", "2", "+">>,
      <<"2", "d", "2", "+", "1", "d">>, <<"2", "x", "2">> }

\* and a die of no side
OtherNotations == NotNotations \cup { <<"1", "d", "0">> }

\* the damage dice that are rolled here: <<count, sides, modifier>>
DamageDice == {<<2, 2, 3>>, <<2, 2, -1>>, <<2, 2, 0>>, <<1, 2, 2>>}

DamageInputs == { Written(v[1], v[2], v[3], "full") : v \in DamageDice }

DexterityModifiers == {-1, 2}

\* the values that n calls of random.randint(1, sides) can return; none is
\* returned with no side to draw from
Draws(n, sides) == IF sides < 1 THEN {<<>>} ELSE [1..n -> 1..sides]

\* DiceEngine.roll_dice(notation, advantage, disadvantage)
RollDice(notation, advantage, disadvantage) ==
    /\ rolls_made < MaxRolls
    /\ rolls_made' = rolls_made + 1
    /\ \E draws \in Draws(DrawsNeeded(notation, advantage, disadvantage),
                         parse_dice_notation(notation).sides) :
          dice_call' = DiceCall("roll_dice", notation, advantage, disadvantage,
                                FALSE,
                                roll_dice(notation, advantage, disadvantage, draws))
    /\ UNCHANGED <<session_vars, agent_vars>>

\* DiceEngine.roll_damage(damage_dice, critical)
RollDamage(damage_dice, critical) ==
    /\ rolls_made < MaxRolls
    /\ rolls_made' = rolls_made + 1
    /\ \E draws \in Draws(DrawsNeeded(DamageNotation(damage_dice, critical),
                                      FALSE, FALSE),
                         parse_dice_notation(damage_dice).sides) :
          dice_call' = DiceCall("roll_damage", damage_dice, FALSE, FALSE, critical,
                                roll_damage(damage_dice, critical, draws))
    /\ UNCHANGED <<session_vars, agent_vars>>

\* DiceEngine.roll_initiative(dexterity_modifier)
RollInitiative(dexterity_modifier) ==
    /\ rolls_made < MaxRolls
    /\ rolls_made' = rolls_made + 1
    /\ \E draws \in Draws(1, TwentySided) :
          dice_call' = DiceCall("roll_initiative", IntStr(dexterity_modifier),
                                FALSE, FALSE, FALSE,
                                roll_initiative(dexterity_modifier, draws))
    /\ UNCHANGED <<session_vars, agent_vars>>

DiceNext ==
    \/ \E notation \in ValidNotations \cup OtherNotations,
          advantage \in BOOLEAN, disadvantage \in BOOLEAN :
            RollDice(notation, advantage, disadvantage)
    \/ \E damage_dice \in DamageInputs \cup OtherNotations, critical \in BOOLEAN :
            RollDamage(damage_dice, critical)
    \/ \E dexterity_modifier \in DexterityModifiers :
            RollInitiative(dexterity_modifier)

DiceStart == SessionInit /\ AgentInit(TRUE) /\ DiceInit

DiceSpec == DiceStart /\ [][DiceNext]_vars

\* a call of roll_dice for n dice of m sides with modifier k
RolledDice(v) ==
    /\ dice_call.op = "roll_dice"
    /\ dice_call.notation = Written(v[1], v[2], v[3], v[4])

AllDice(rolls, sides) ==
    \A i \in 1..Len(rolls) :
        rolls[i].note = "" /\ 1 <= rolls[i].die /\ rolls[i].die <= sides

\* C15: for every valid notation NdM+K (K negative or absent too) rolled
\* without advantage and disadvantage, roll_dice returns exactly N results, each
\* an integer from 1 to M, and total is their sum plus K.
C15_RollMatchesNotation ==
    \A v \in ValidDice :
        (RolledDice(v) /\ ~dice_call.advantage /\ ~dice_call.disadvantage) =>
            /\ dice_call.status = "ok"
            /\ Len(dice_call.roll.individual_rolls) = v[1]
            /\ AllDice(dice_call.roll.individual_rolls, v[2])
            /\ dice_call.roll.total = SumDice(dice_call.roll.individual_rolls) + v[3]

\* "3d2-1" rolled 2, 1, 2: total 4
C15_Witness ==
    /\ RolledDice(<<3, 2, -1, "full">>)
    /\ ~dice_call.advantage /\ ~dice_call.disadvantage
    /\ dice_call.roll.individual_rolls = <<Die(2), Die(1), Die(2)>>
    /\ dice_call.roll.total = 4

\* a call of roll_dice for one d20, and the result that it counted
RolledD20 ==
    \E v \in ValidDice : v[1] = 1 /\ v[2] = TwentySided /\ RolledDice(v)

ModifierAsked == (CHOOSE v \in ValidDice : RolledDice(v))[3]

Flagged == dice_call.advantage \/ dice_call.disadvantage

Roll1 == dice_call.roll.individual_rolls[1].die
Roll2 == dice_call.roll.individual_rolls[2].die
Counted ==
    dice_call.roll.individual_rolls[Len(dice_call.roll.individual_rolls)].die

\* C16 as stated: for a 1d20 roll with any modifier and any combination of the
\* flags, the counted result is max(roll1, roll2) whenever advantage is set and
\* min(roll1, roll2) whenever disadvantage is set, and total is the counted
\* result plus the modifier.
C16_FlagsSelectMaxAndMin ==
    (RolledD20 /\ Flagged) =>
        /\ dice_call.status = "ok"
        /\ dice_call.advantage => Counted = SelectedRoll(TRUE, Roll1, Roll2)
        /\ dice_call.disadvantage => Counted = SelectedRoll(FALSE, Roll1, Roll2)
        /\ dice_call.roll.total = Counted + ModifierAsked

\* C16 (amended): for a 1d20 roll with any modifier, the counted result is
\* max(roll1, roll2) whenever advantage is set, with disadvantage set or not,
\* and min(roll1, roll2) when disadvantage alone is set; total is the counted
\* result plus the modifier.
C16_AdvantageFirst ==
    (RolledD20 /\ Flagged) =>
        /\ dice_call.status = "ok"
        /\ Len(dice_call.roll.individual_rolls) = 3
        /\ dice_call.advantage =>
              /\ Counted = (IF Roll1 > Roll2 THEN Roll1 ELSE Roll2)
              /\ dice_call.roll.individual_rolls[3].note = "advantage"
        /\ (dice_call.disadvantage /\ ~dice_call.advantage) =>
              /\ Counted = (IF Roll1 < Roll2 THEN Roll1 ELSE Roll2)
              /\ dice_call.roll.individual_rolls[3].note = "disadvantage"
        /\ dice_call.roll.total = Counted + ModifierAsked

\* both flags set, 7 and 15 rolled: 15 is counted
C16_Witness ==
    /\ RolledD20
    /\ dice_call.advantage /\ dice_call.disadvantage
    /\ Roll1 = 7 /\ Roll2 = 15
    /\ Counted = 15
    /\ dice_call.roll.total = 15 + ModifierAsked

\* the notation asks for exactly one twenty-sided die
OneD20(notation) ==
    LET p == parse_dice_notation(notation)
    IN  p.ok /\ p.count = 1 /\ p.sides = TwentySided

\* the notation that the last call was asked to roll
NotationAsked ==
    IF dice_call.op = "roll_initiative" THEN <<"1", "d", "2", "0">>
    ELSE dice_call.notation

\* C17 as stated: for every roll result of the dice engine, roll_damage
\* included, critical is true if and only if the notation asked for exactly
\* one twenty-sided die and the counted result is 20.
C17_CriticalIffNatural20 ==
    dice_call.status = "ok" =>
        (dice_call.roll.critical <=>
            (OneD20(NotationAsked) /\ Counted = 20))

CriticalDamage == dice_call.op = "roll_damage" /\ dice_call.critical

\* C17 (amended): for every result of roll_dice, of roll_initiative and of
\* roll_damage without critical, critical is true if and only if the notation
\* asked for exactly one twenty-sided die and the counted result is 20; the
\* result of roll_damage with critical=true has critical true whatever was
\* rolled.
C17_CriticalIffNatural20OrCriticalDamage ==
    dice_call.status = "ok" =>
        /\ ~CriticalDamage =>
              (dice_call.roll.critical <=>
                  (OneD20(NotationAsked) /\ Counted = 20))
        /\ CriticalDamage => dice_call.roll.critical

\* critical damage of "2d2+3": four dice of two sides, critical true
C17_Witness ==
    /\ CriticalDamage
    /\ dice_call.notation = Written(2, 2, 3, "full")
    /\ dice_call.status = "ok"
    /\ Len(dice_call.roll.individual_rolls) = 4
    /\ dice_call.roll.critical

\* a call of roll_damage with critical=true for n dice of m sides and modifier k
CriticalDamageOf(n, m, k) ==
    CriticalDamage /\ dice_call.notation = Written(n, m, k, "full")

\* C18: for every valid damage notation NdM with modifier K (positive, zero,
\* absent or negative), roll_damage with critical=true rolls exactly 2N dice of
\* M sides and adds the modifier K unchanged: total is the sum of the 2N dice
\* plus K.
C18_CriticalDoublesDiceOnly ==
    \A v \in DamageDice :
        CriticalDamageOf(v[1], v[2], v[3]) =>
            /\ dice_call.status = "ok"
            /\ Len(dice_call.roll.individual_rolls) = 2 * v[1]
            /\ AllDice(dice_call.roll.individual_rolls, v[2])
            /\ dice_call.roll.modifier = v[3]
            /\ dice_call.roll.total =
                  SumDice(dice_call.roll.individual_rolls) + v[3]

\* C19: roll_dice fails with the invalid-notation error, and gives no roll
\* result, for every text that with spaces removed and in lower case is not
\* entirely of the form [count]d<sides>[(+|-)modifier], a valid notation
\* followed by more characters included.
C19_RejectsAllButNotations ==
    (dice_call.op = "roll_dice" /\ dice_call.notation \in NotNotations) =>
        dice_call.status = "invalid_notation" /\ dice_call.roll = NoRoll

(***************************************************************************)
(* The order of the companions in a new session                            *)
(***************************************************************************)
\* the turn orders that _initialize_turn_order can leave in a new session:
\* random.shuffle is given the copy that the slice turn_order[1:] makes, so
\* whatever it draws, turn_order itself stays as it was built
PossibleTurnOrders(human_player_name, ai_players) ==
    { InitializeTurnOrder(human_player_name, ai_players) }

\* the k! orders of k companions
Orderings(ai_players) ==
    LET k == Len(ai_players)
        perms == { f \in [1..k -> 1..k] : \A i, j \in 1..k : f[i] = f[j] => i = j }
    IN  { [i \in 1..k |-> ai_players[f[i]].name] : f \in perms }

\* a session as create_session stores it
NewlyCreated(session) == session.game_turns = <<>> /\ session.total_turns = 0

\* C20: the companions are randomly permuted at session creation: for a roster
\* of k companions, each of the k! orders of the companions after the human is
\* a possible turn order of a newly created session.
C20_EveryOrderingPossible ==
    \A sid \in DOMAIN active_sessions :
        LET session == active_sessions[sid]
        IN  NewlyCreated(session) =>
                /\ session.turn_order \in
                      PossibleTurnOrders(session.human_player_name,
                                         session.ai_players)
                /\ \A order \in Orderings(session.ai_players) :
                      <<session.human_player_name>> \o order \in
                          PossibleTurnOrders(session.human_player_name,
                                             session.ai_players)

(***************************************************************************)
(* The turn history is append-only                                         *)
(***************************************************************************)
IsPrefix(before, after) ==
    /\ Len(before) <= Len(after)
    /\ SubSeq(after, 1, Len(before)) = before

\* C21: across any step of any operation on the session store, the turn
\* history of every session that is stored before and after the step is a
\* prefix of its history after the step: records are appended, never removed,
\* reordered or rewritten.
C21_HistoryAppendOnly ==
    [][\A s \in Stored \cap DOMAIN active_sessions' :
          IsPrefix(active_sessions[s].game_turns,
                   active_sessions'[s].game_turns)]_vars

\* a companion turn was appended behind a human turn and its reactions
C21_Witness ==
    /\ last_call.op = "generate_ai_turn"
    /\ last_call.error = ""
    /\ last_call.session_id \in Stored
    /\ Len(active_sessions[last_call.session_id].game_turns) >= 3
    /\ HumanCount(active_sessions[last_call.session_id]) >= 1

(***************************************************************************)
(* Executed backlog entries and the rendered response                      *)
(***************************************************************************)
\* the backlog of the cycle that just ran, between its plan step and its
\* execute step
PlannedInCycle == PlanFutureActions(planned_actions, dm_result'.decisions)

\* the cycle that just ran got as far as its execute step
CycleExecuted ==
    /\ cycles' = cycles + 1
    /\ dm_result'.collaborator # "not_called"

\* C22: every backlog entry that the execute step removes has its fragment
\* appended to the rendered output of that same cycle: a cycle that removes
\* entries ends with a rendered response that carries the fragment of each
\* of them, also when the render step fails.
C22_ExecutedFragmentsRendered ==
    [][CycleExecuted /\ Len(planned_actions') < Len(PlannedInCycle)
         => /\ dm_result'.status = "ok"
            /\ dm_result'.executed = ExecutePlannedActions(PlannedInCycle).executed
            /\ Len(dm_result'.executed)
                 = Len(PlannedInCycle) - Len(planned_actions')]_vars

(***************************************************************************)
(* The memory over many cycles                                             *)
(***************************************************************************)
\* the cycles that reach step 7 of process_player_input here
MaxPersists == 11

\* analyses with and without an emotional state
MemoryAnalyses == {ParseAiAnalysis("prose"), ParseAiAnalysis("json_partial")}

\* step 7 of process_player_input after a cycle with this analysis
MemoryStep(analysis) ==
    /\ cycles < MaxPersists
    /\ cycles' = cycles + 1
    /\ UpdateMemoryAndWorldState(analysis,
                                 [NoDecisions EXCEPT !.tension_adjustment = "maintain"])
    /\ UNCHANGED <<anthropic, player_behavior_model, planned_actions, dm_result,
                   session_vars, dice_vars>>

MemoryNext == \E analysis \in MemoryAnalyses : MemoryStep(analysis)

MemoryStart == SessionInit /\ AgentInit(TRUE) /\ DiceInit

MemorySpec == MemoryStart /\ [][MemoryNext]_vars

\* the context window holds the entries of the cycles first..cycles, in order
WindowIsCycles(first) ==
    /\ Len(conversation_context) = cycles - first + 1
    /\ \A i \in 1..Len(conversation_context) :
          conversation_context[i].cycle = first + i - 1

\* C23: the controller's memory is bounded in every reachable state: the
\* conversation-context window never holds more than 20 entries and always
\* equals the most recent entries in order of occurrence, and the decision
\* history and the emotion history never hold more than 10 entries each.
C23_MemoryBounded ==
    /\ Len(conversation_context) <= ContextCap
    /\ WindowIsCycles(Max(1, cycles - ContextCap + 1))
    /\ Len(past_decisions) <= 10
    /\ Len(player_emotional_responses) <= EmotionCap

(***************************************************************************)
(* The preferred play style                                                *)
(***************************************************************************)
\* C24: the preferred play style is set at most once: a cycle in which it is
\* still "unknown" and the analysis has a play style takes the analysed play
\* style, a cycle in which it is "unknown" and the analysis has none leaves it
\* "unknown", and once it is set every later cycle leaves it unchanged
\* whatever the analysis says.
C24_PlayStyleSetOnce ==
    [][cycles' = cycles + 1 =>
         LET current_style == player_behavior_model.preferred_play_style
             analysed == dm_result'.analysis.play_style
         IN  player_behavior_model'.preferred_play_style =
                IF current_style = "unknown" /\ Truthy(analysed)
                THEN analysed.text
                ELSE current_style]_vars

\* the second cycle analysed another play style than the one the first cycle
\* had set, and the first one is kept
C24_Witness ==
    /\ cycles = 2
    /\ Truthy(dm_result.analysis.play_style)
    /\ player_behavior_model.preferred_play_style # "unknown"
    /\ player_behavior_model.preferred_play_style
         # dm_result.analysis.play_style.text

(***************************************************************************)
(* The fallback analysis                                                   *)
(***************************************************************************)
AnalysisFields ==
    {"explicit_intent", "implicit_intent", "emotional_state", "play_style",
     "risk_tolerance", "character_attachment", "narrative_preference",
     "interaction_level"}

NumericFields == {"risk_tolerance", "character_attachment", "interaction_level"}

\* a record with all eight fields, the three numeric ones numbers in [0,1]
CompleteAnalysis(analysis) ==
    /\ DOMAIN analysis = AnalysisFields
    /\ \A k \in AnalysisFields : analysis[k].kind \in {"str", "num"}
    /\ \A k \in AnalysisFields \ NumericFields :
          analysis[k].kind = "str" /\ analysis[k].text # ""
    /\ \A k \in NumericFields :
          /\ analysis[k].kind = "num"
          /\ 0 <= analysis[k].num
          /\ analysis[k].num <= Unit

\* C25: whenever the collaborator is unavailable or its call fails during the
\* analyze step, the analyze step raises no error and yields a complete record
\* with all eight fields, its three numeric fields being numbers in [0,1], and
\* the behaviour-model update of that cycle still takes place.
C25_FallbackAnalysisComplete ==
    [][(cycles' = cycles + 1 /\ dm_result'.analyzed_by = "fallback")
       => /\ CompleteAnalysis(dm_result'.analysis)
          /\ dm_result'.error \notin {"type_error"}
          /\ player_behavior_model'
               = UpdatePlayerBehaviorModel(player_behavior_model,
                                           dm_result'.analysis)]_vars

\* a cycle whose analysis call failed with a client present, and that moved
\* the behaviour model
C25_Witness ==
    /\ cycles >= 1
    /\ anthropic
    /\ dm_result.analyzed_by = "fallback"
    /\ dm_result.status = "ok"
    /\ dm_result.analysis.risk_tolerance = Num(T(7))
    /\ player_behavior_model.risk_tolerance > T(5)

(***************************************************************************)
(* Friendly NPCs and a frustrated player                                   *)
(***************************************************************************)
\* the cycle that just ended made its decisions with a frustrated player
FrustratedCycle ==
    /\ dm_result.collaborator # "not_called"
    /\ dm_result.analysis.emotional_state = Str("frustrated")

\* the NPCs, by number, that offer help in the decisions of the cycle
Helpers ==
    {i \in 1..Len(dm_result.campaign) :
        InSeq(<<i, "offer_help">>, dm_result.decisions.npc_actions)}

FriendlyNpcs(campaign) ==
    {i \in 1..Len(campaign) : "Friendly" \in campaign[i]}

\* C26 as stated: in a cycle whose analysis reports the emotional state
\* "frustrated", each NPC of the campaign that has the friendly trait
\* contributes an offer-help action, for a campaign with any number of NPCs.
C26_EveryFriendlyNpcOffersHelp ==
    FrustratedCycle => Helpers = FriendlyNpcs(dm_result.campaign)

\* C26 amended: in a cycle whose analysis reports the emotional state
\* "frustrated", each of the first three NPCs of the campaign that has the
\* friendly trait contributes an offer-help action, and no NPC after the third
\* contributes any action.
C26_FirstThreeFriendlyNpcsOfferHelp ==
    FrustratedCycle =>
        /\ Helpers = FriendlyNpcs(dm_result.campaign) \cap 1..ImportantNpcs
        /\ \A j \in 1..Len(dm_result.decisions.npc_actions) :
              dm_result.decisions.npc_actions[j][1] <= ImportantNpcs

\* a frustrated player and a campaign whose fourth NPC is friendly
C26_Witness ==
    /\ FrustratedCycle
    /\ Len(dm_result.campaign) > ImportantNpcs
    /\ "Friendly" \in dm_result.campaign[Len(dm_result.campaign)]
    /\ Helpers = {1, 3}

(***************************************************************************)
(* Companion reactions for unknown names                                   *)
(***************************************************************************)
\* C27: companion-reaction generation for a name that is not a companion of
\* the roster fails fast and is not swallowed: no companion turn record is
\* appended to any session for such a name (and so the turn pointer and counter
\* are not advanced for it); every companion record of every stored session
\* carries the name of a companion of the roster.
C27_UnknownCompanionLeavesNoTurn ==
    \A s \in Stored :
        \A i \in 1..Len(active_sessions[s].game_turns) :
            active_sessions[s].game_turns[i].player_type = "ai"
                => get_player_by_name(active_sessions[s].game_turns[i].player_name) # 0

(***************************************************************************)
(* The turn pointer and the turn counter                                   *)
(***************************************************************************)
\* C28: in every reachable state of every stored session, under any sequence
\* of process_player_action and generate_ai_turn calls, current_turn_index is
\* a valid index of turn_order and equals total_turns modulo len(turn_order).
C28_IndexIsTurnsModuloOrder ==
    \A s \in Stored :
        LET session == active_sessions[s]
        IN  /\ session.current_turn_index \in 0..(Len(session.turn_order) - 1)
            /\ session.current_turn_index
                 = session.total_turns % Len(session.turn_order)

\* a session that took player actions and companion turns, more of them than
\* its turn order is long
C28_Witness ==
    \E s \in Stored :
        LET session == active_sessions[s]
        IN  /\ session.total_turns > Len(session.turn_order)
            /\ session.current_turn_index = 1
            /\ HumanCount(session) >= 1
            /\ last_call.op = "generate_ai_turn"
            /\ last_call.error = ""

(***************************************************************************)
(* The political tension of the controller's world                         *)
(***************************************************************************)
\* C29: starting from the initial world state (political tension 0.3),
\* political tension has its initial value in every reachable state: in every
\* processing cycle, for any input analysis and behaviour model, the
\* tension-adjustment verdict is "maintain", so the story direction
\* "introduce_conflict" and the tension-triggered world event are never
\* produced.
C29_TensionStaysInitial ==
    /\ world_state.political_tension = InitializeWorldState.political_tension
    /\ \A i \in 1..Len(conversation_context) :
          conversation_context[i].world_state_snapshot.political_tension
            = InitializeWorldState.political_tension
    /\ dm_result.collaborator # "not_called" =>
          /\ dm_result.decisions.tension_adjustment = "maintain"
          /\ dm_result.decisions.story_direction # "introduce_conflict"
          /\ ~InSeq("distant_commotion", dm_result.decisions.world_events)

\* two persisted cycles of a player whose modelled risk tolerance is above
\* 0.7, the threshold of the "increase" verdict
C29_Witness ==
    /\ cycles = 2
    /\ Len(conversation_context) = 2
    /\ dm_result.status = "ok"
    /\ player_behavior_model.risk_tolerance > T(7)
    /\ dm_result.decisions.tension_adjustment = "maintain"

(***************************************************************************)
(* The planned-action backlog over cycles that keep running                *)
(***************************************************************************)
\* the entries the backlog may hold here
MaxBacklog == 4

\* behaviour models of a controller: as constructed, and after two cycles
\* with a player who is invested in the character
BacklogModels ==
    LET initial == [preferred_play_style |-> "unknown", risk_tolerance |-> T(5),
                    narrative_preference |-> "unknown",
                    interaction_frequency |-> T(5),
                    character_attachment |-> T(5)]
        invested == ParseAiAnalysis("json_words")
    IN  {initial,
         UpdatePlayerBehaviorModel(UpdatePlayerBehaviorModel(initial, invested),
                                   invested)}

\* the analyze step of the cycles: a failed call with each input, and a reply
\* with numbers
BacklogCases ==
    { <<player_input, "raises">> : player_input \in ChatInputs }
    \cup { <<"wait", "json_unit">> }

BacklogAnalyses ==
    {AnalyzePlayerInput(TRUE, case[1], case[2]) : case \in BacklogCases}

\* steps 3 to 5 of process_player_input in a cycle that completes: the
\* decisions, the plan step and the execute step.  The behaviour model is the
\* one the cycle decides with; the counters and the memory, which grow with
\* every cycle, are left as they are.  No comparison of these cycles is at
\* equality, so tie is of no account.
BacklogStep(model, case, character) ==
    LET analysis == AnalyzePlayerInput(anthropic, case[1], case[2])
        decisions ==
            MakeAutonomousDecisions(model, world_state, analysis, character,
                                    <<>>, FALSE, {}, FALSE)
        run == ExecutePlannedActions(PlanFutureActions(planned_actions, decisions))
    IN  /\ anthropic
        /\ ~DecisionsRaise(model, analysis, character, FALSE)
        /\ Len(run.planned) <= MaxBacklog
        /\ planned_actions' = run.planned
        /\ dm_result' = DmResult("ok", "", analysis, decisions, run.executed,
                                 "answered", AnalyzedBy(anthropic, case[2]),
                                 <<>>)
        /\ UNCHANGED <<anthropic, player_behavior_model, world_state,
                       conversation_context, past_decisions,
                       player_emotional_responses, cycles, session_vars,
                       dice_vars>>

BacklogNext ==
    \E model \in BacklogModels, case \in BacklogCases,
       character \in Characters :
        BacklogStep(model, case, character)

BacklogStart == SessionInit /\ AgentInit(TRUE) /\ DiceInit

\* processing cycles keep running
BacklogSpec == BacklogStart /\ [][BacklogNext]_vars /\ WF_vars(BacklogNext)

\* the entries that _plan_future_actions can append
BacklogEntries ==
    { [action_type |-> "introduce_clue", priority |-> 8, opportunities |-> <<>>] }
    \cup { [action_type |-> "character_growth_opportunity", priority |-> 7,
            opportunities |->
                PlanCharacterDevelopment(character, analysis).opportunities] :
           character \in {c \in Characters : c.present},
           analysis \in BacklogAnalyses }

\* C30: every action placed in the planned-action backlog eventually leaves
\* it: if processing cycles keep running, each backlog entry is executed and
\* removed after finitely many cycles.
C30_EveryEntryLeaves ==
    \A entry \in BacklogEntries :
        InSeq(entry, planned_actions) ~> ~InSeq(entry, planned_actions)

====
